---- MODULE Spec2Model ----
(***************************************************************************)
(* A model of scripts/generate_ics.py: the generator of the holiday        *)
(* calendar (statutory holidays and compensatory workdays from the         *)
(* holiday-cn feed, fixed solar holidays, lunar holidays, floating         *)
(* holidays), its date rules, and the write of holidays.ics.               *)
(*                                                                         *)
(* Text (names, titles, date strings, identifiers) is a sequence of        *)
(* one-character strings, so that concatenation, stripping, parsing and    *)
(* formatting are computed as the code computes them.  The Chinese         *)
(* literals of the source are written in ASCII (the module's lexer takes   *)
(* no full-width punctuation); each definition names the literal it        *)
(* stands for.                                                             *)
(***************************************************************************)
EXTENDS Integers, Sequences, FiniteSets, TLC

VARIABLES
    pc,         \* position of the running function
    args,       \* the arguments of the function under check (pure-function specifications)
    result,     \* its return value
    clock,      \* the wall clock, Asia/Shanghai (datetime.now(TZ_SH)), in ticks
    years,      \* build_calendar: years = [current_year, current_year + 1]
    cal,        \* the Calendar: the sequence of its VEVENT components
    origin,     \* history: for each component of cal, <<pass, year of the loop>> that added it
    feed,       \* holiday-cn: year -> FetchFail or the "days" list of {year}.json
    fixedFile,  \* data/fixed_holidays.csv: Missing or its rows
    lunarFile,  \* data/lunar_holidays.csv: Missing or its rows
    conv,       \* lunardate: <<lunar year, month, day>> -> a solar date or ConvFail
    file,       \* holidays.ics: Absent or its content
    run,        \* which run of main this is (1 or 2)
    prev,       \* history: what the previous run of main saw and built
    yi,         \* build_calendar: the index in years of the statutory loop
    fileBefore  \* history: holidays.ics as it was when this run of main began

vars == <<pc, args, result, clock, years, cal, origin, feed, fixedFile, lunarFile,
          conv, file, run, prev, yi, fileBefore>>

buildVars == <<clock, years, cal, origin, feed, fixedFile, lunarFile, conv, file, run, prev,
               yi, fileBefore>>

-----------------------------------------------------------------------------
(* Bounds of the model *)

\* the first year of the range of years the date rules are checked on
FirstYear == 2023
\* the number of years after FirstYear in that range
YearSpan == 5
\* the longest "days" list of a feed in the specification of the statutory pass
MaxDays == 2
\* the longest rule table in the specification of the lunar pass
MaxRules == 2
\* the last tick of the wall clock in the specification of main
MaxClock == 1
\* the most components of the file a write that fails has written
MaxCut == 2

-----------------------------------------------------------------------------
(* datetime.date: the proleptic Gregorian calendar, as CPython computes it  *)

Date(y, m, d) == [year |-> y, month |-> m, day |-> d]

IsLeap(y) == y % 4 = 0 /\ (y % 100 # 0 \/ y % 400 = 0)

DaysInMonth(y, m) ==
    IF m = 2 THEN (IF IsLeap(y) THEN 29 ELSE 28)
    ELSE IF m \in {4, 6, 9, 11} THEN 30 ELSE 31

\* _DAYS_BEFORE_MONTH, for a common year
DaysBeforeMonthCommon(m) ==
    <<0, 31, 59, 90, 120, 151, 181, 212, 243, 273, 304, 334>>[m]

DaysBeforeMonth(y, m) ==
    DaysBeforeMonthCommon(m) + (IF m > 2 /\ IsLeap(y) THEN 1 ELSE 0)

DaysBeforeYear(y) ==
    (y - 1) * 365 + ((y - 1) \div 4) - ((y - 1) \div 100) + ((y - 1) \div 400)

\* date(y, m, d) raises ValueError unless this holds
ValidDate(y, m, d) ==
    /\ y \in 1..9999
    /\ m \in 1..12
    /\ d \in 1..DaysInMonth(y, m)

\* date.toordinal()
ToOrdinal(dt) == DaysBeforeYear(dt.year) + DaysBeforeMonth(dt.year, dt.month) + dt.day

\* date.fromordinal(n): _ord2ymd
FromOrdinal(n) ==
    LET n0   == n - 1
        n400 == n0 \div 146097
        r400 == n0 % 146097
        n100 == r400 \div 36524
        r100 == r400 % 36524
        n4   == r100 \div 1461
        r4   == r100 % 1461
        n1   == r4 \div 365
        r1   == r4 % 365
        y    == n400 * 400 + 1 + n100 * 100 + n4 * 4 + n1
    IN  IF n1 = 4 \/ n100 = 4
        THEN Date(y - 1, 12, 31)
        ELSE LET guess == (r1 + 50) \div 32
                 m     == IF DaysBeforeMonth(y, guess) > r1 THEN guess - 1 ELSE guess
             IN  Date(y, m, r1 - DaysBeforeMonth(y, m) + 1)

\* date + timedelta(days=k)
AddDays(dt, k) == FromOrdinal(ToOrdinal(dt) + k)

\* date.weekday(): Monday = 0 ... Sunday = 6
Weekday(dt) == (ToOrdinal(dt) + 6) % 7

-----------------------------------------------------------------------------
(* get_nth_weekday *)

\* a slip in the offset: the subtraction the other way round
get_nth_weekday_swapped(year, month, weekday, n) ==
    LET first_day == Date(year, month, 1)
        offset    == (Weekday(first_day) - weekday) % 7
    IN  AddDays(first_day, offset + (n - 1) * 7)

get_nth_weekday(year, month, weekday, n) ==
    LET first_day == Date(year, month, 1)
        offset    == (weekday - Weekday(first_day)) % 7
    IN  AddDays(first_day, offset + (n - 1) * 7)

-----------------------------------------------------------------------------
(* Text: digits, date.isoformat(), datetime.strptime(s, "%Y-%m-%d")         *)

Digit(n) == <<"0", "1", "2", "3", "4", "5", "6", "7", "8", "9">>[n + 1]

IsDigit(c) == c \in {Digit(n) : n \in 0..9}

DigitVal(c) == CHOOSE n \in 0..9 : Digit(n) = c

\* the exception a function raises instead of returning (ValueError and the like)
Raised == [raised |-> "Exception"]

\* date.isoformat(): "%04d-%02d-%02d"
IsoFormat(dt) ==
    <<Digit(dt.year \div 1000), Digit((dt.year \div 100) % 10),
      Digit((dt.year \div 10) % 10), Digit(dt.year % 10), "-",
      Digit(dt.month \div 10), Digit(dt.month % 10), "-",
      Digit(dt.day \div 10), Digit(dt.day % 10)>>

\* datetime.strptime(s, "%Y-%m-%d").date().  The format compiles to the regex
\*   (\d\d\d\d)-(1[0-2]|0[1-9]|[1-9])-(3[01]|[12]\d|0[1-9]|[1-9]| [1-9])
\* matched at the start of s; text left after the match, or a day the month
\* has not, raises ValueError.
Strptime(s) ==
    LET n      == Len(s)
        nz(c)  == IsDigit(c) /\ c # "0"
        yOK    == n >= 5 /\ (\A i \in 1..4 : IsDigit(s[i])) /\ s[5] = "-"
        two(i) == \/ s[i] = "1" /\ s[i + 1] \in {"0", "1", "2"}
                  \/ s[i] = "0" /\ nz(s[i + 1])
        mlen   == IF n >= 8 /\ two(6) /\ s[8] = "-" THEN 2
                  ELSE IF n >= 7 /\ nz(s[6]) /\ s[7] = "-" THEN 1
                  ELSE 0
        p      == 6 + mlen + 1
        dtwo   == /\ n >= p + 1
                  /\ \/ s[p] = "3" /\ s[p + 1] \in {"0", "1"}
                     \/ s[p] \in {"1", "2"} /\ IsDigit(s[p + 1])
                     \/ s[p] = "0" /\ nz(s[p + 1])
        done   == n >= p /\ nz(s[p])
        dsp    == n >= p + 1 /\ s[p] = " " /\ nz(s[p + 1])
        dlen   == IF dtwo THEN 2 ELSE IF done THEN 1 ELSE IF dsp THEN 2 ELSE 0
        year   == 1000 * DigitVal(s[1]) + 100 * DigitVal(s[2])
                    + 10 * DigitVal(s[3]) + DigitVal(s[4])
        month  == IF mlen = 2 THEN 10 * DigitVal(s[6]) + DigitVal(s[7])
                  ELSE DigitVal(s[6])
        day    == IF dtwo THEN 10 * DigitVal(s[p]) + DigitVal(s[p + 1])
                  ELSE IF done THEN DigitVal(s[p])
                  ELSE DigitVal(s[p + 1])
    IN  IF yOK /\ mlen > 0 /\ dlen > 0 /\ p + dlen - 1 = n /\ ValidDate(year, month, day)
        THEN Date(year, month, day)
        ELSE Raised

-----------------------------------------------------------------------------
(* JSON values of the feed, and Python's truth of them *)

JNull == [null |-> TRUE]          \* a key that is missing or null: d.get(key) is None
JStr(s) == [str |-> s]
JBool(b) == [bool |-> b]

Truthy(v) == v # JNull /\ v # JStr(<<>>) /\ v # JBool(FALSE)

-----------------------------------------------------------------------------
(* _add_all_day_event *)

UidSuffix == <<"@china-calendar">>

\* a slip in the identifier: the date without its year
Uid_NoYear(the_date, summary) ==
    SubSeq(IsoFormat(the_date), 6, 10) \o <<"-">> \o summary \o UidSuffix

\* f"{the_date.isoformat()}-{summary}@china-calendar"
Uid(the_date, summary) ==
    IsoFormat(the_date) \o <<"-">> \o summary \o UidSuffix

\* a slip in the identifier: the creation time mixed into it
Event_UidStamped(the_date, summary, description, category, now) ==
    [summary     |-> summary,
     description |-> description,
     categories  |-> category,
     dtstart     |-> the_date,
     dtend       |-> AddDays(the_date, 1),
     transp      |-> "TRANSPARENT",
     dtstamp     |-> now,
     uid         |-> <<Digit(now)>> \o <<"-">> \o Uid(the_date, summary)]

Event(the_date, summary, description, category, now) ==
    [summary     |-> summary,
     description |-> description,
     categories  |-> category,
     dtstart     |-> the_date,
     dtend       |-> AddDays(the_date, 1),
     transp      |-> "TRANSPARENT",
     dtstamp     |-> now,
     uid         |-> Uid(the_date, summary)]

add_all_day_event(c, the_date, summary, description, category, now) ==
    Append(c, Event(the_date, summary, description, category, now))

-----------------------------------------------------------------------------
(* add_offdays_and_workdays *)

\* the literals of the source, in ASCII
CatStatutory == "statutory-holiday"          \* "法定节假日"
CatWorkday   == "compensatory-workday"       \* "补班"
DescStatutory == <<"statutory holiday (source: holiday-cn)">>
DescWorkday   == <<"workday of the compensatory schedule (source: holiday-cn)">>
\* the title prefix of a compensatory workday, "【补班】"
PrefixWorkday == <<"[", "b", "u", "b", "a", "n", "]">>

\* The loop over days from record i on.  c is the calendar so far, em the
\* indices of the records that added an event so far (history).  A date
\* string that does not parse raises out of the loop: the events added
\* before it stay in the calendar.
RECURSIVE OffdaysFrom(_, _, _, _, _)
OffdaysFrom(c, em, days, i, now) ==
    IF i > Len(days) THEN [cal |-> c, emitted |-> em, raised |-> FALSE]
    ELSE LET d       == days[i]
             name    == d.name
             day_str == d.date
             is_off  == d.isOffDay
         IN  IF ~Truthy(day_str)
             THEN OffdaysFrom(c, em, days, i + 1, now)
             ELSE LET dt == Strptime(day_str.str)
                  IN  IF dt = Raised
                      THEN [cal |-> c, emitted |-> em, raised |-> TRUE]
                      ELSE IF Truthy(is_off) /\ Truthy(name)
                      THEN OffdaysFrom(
                             add_all_day_event(c, dt, name.str, DescStatutory,
                                               CatStatutory, now),
                             Append(em, i), days, i + 1, now)
                      ELSE IF ~Truthy(is_off) /\ Truthy(name)
                      THEN OffdaysFrom(
                             add_all_day_event(c, dt, PrefixWorkday \o name.str,
                                               DescWorkday, CatWorkday, now),
                             Append(em, i), days, i + 1, now)
                      ELSE OffdaysFrom(c, em, days, i + 1, now)

\* a slip: the compensatory branch without its test of the name
RECURSIVE OffdaysFrom_NoNameTest(_, _, _, _, _)
OffdaysFrom_NoNameTest(c, em, days, i, now) ==
    IF i > Len(days) THEN [cal |-> c, emitted |-> em, raised |-> FALSE]
    ELSE LET d       == days[i]
             name    == d.name
             day_str == d.date
             is_off  == d.isOffDay
             text    == IF name = JNull THEN <<"None">> ELSE name.str
         IN  IF ~Truthy(day_str)
             THEN OffdaysFrom_NoNameTest(c, em, days, i + 1, now)
             ELSE LET dt == Strptime(day_str.str)
                  IN  IF dt = Raised
                      THEN [cal |-> c, emitted |-> em, raised |-> TRUE]
                      ELSE IF Truthy(is_off) /\ Truthy(name)
                      THEN OffdaysFrom_NoNameTest(
                             add_all_day_event(c, dt, name.str, DescStatutory,
                                               CatStatutory, now),
                             Append(em, i), days, i + 1, now)
                      ELSE IF ~Truthy(is_off)
                      THEN OffdaysFrom_NoNameTest(
                             add_all_day_event(c, dt, PrefixWorkday \o text,
                                               DescWorkday, CatWorkday, now),
                             Append(em, i), days, i + 1, now)
                      ELSE OffdaysFrom_NoNameTest(c, em, days, i + 1, now)

add_offdays_and_workdays_NoNameTest(c, days, now) ==
    OffdaysFrom_NoNameTest(c, <<>>, days, 1, now)

add_offdays_and_workdays(c, days, now) == OffdaysFrom(c, <<>>, days, 1, now)

-----------------------------------------------------------------------------
(* lunar_to_solar_for_gregorian_year *)

\* the exception of a conversion that fails
ConvFail == [raised |-> "ValueError"]

\* lunardate.LunarDate(y, m, d).to_datetime().date(): the library's answer,
\* a solar date or an exception (ConvFail)
LunarDateToSolar(cv, lunar_year, lunar_month, lunar_day) ==
    cv[<<lunar_year, lunar_month, lunar_day>>]

\* a slip: the first candidate kept whatever its solar year
lunar_to_solar_first_unfiltered(cv, gregorian_year, lunar_month, lunar_day) ==
    LET dt1 == LunarDateToSolar(cv, gregorian_year, lunar_month, lunar_day)
        dt0 == LunarDateToSolar(cv, gregorian_year - 1, lunar_month, lunar_day)
        r1  == IF dt1 # ConvFail THEN <<dt1>> ELSE <<>>
        r0  == IF dt0 # ConvFail /\ dt0.year = gregorian_year THEN <<dt0>> ELSE <<>>
    IN  r1 \o r0

\* a slip: the second candidate kept whatever its solar year
lunar_to_solar_unfiltered(cv, gregorian_year, lunar_month, lunar_day) ==
    LET dt1 == LunarDateToSolar(cv, gregorian_year, lunar_month, lunar_day)
        dt0 == LunarDateToSolar(cv, gregorian_year - 1, lunar_month, lunar_day)
        r1  == IF dt1 # ConvFail /\ dt1.year = gregorian_year THEN <<dt1>> ELSE <<>>
        r0  == IF dt0 # ConvFail THEN <<dt0>> ELSE <<>>
    IN  r1 \o r0

lunar_to_solar_for_gregorian_year(cv, gregorian_year, lunar_month, lunar_day) ==
    LET dt1 == LunarDateToSolar(cv, gregorian_year, lunar_month, lunar_day)
        dt0 == LunarDateToSolar(cv, gregorian_year - 1, lunar_month, lunar_day)
        r1  == IF dt1 # ConvFail /\ dt1.year = gregorian_year THEN <<dt1>> ELSE <<>>
        r0  == IF dt0 # ConvFail /\ dt0.year = gregorian_year THEN <<dt0>> ELSE <<>>
    IN  r1 \o r0

-----------------------------------------------------------------------------
(* The CSV sources: csv.DictReader rows, str.strip(), int()                 *)

\* a field of a row: NoCol when the header has no such column, JNull when the
\* row is shorter than the header (DictReader's restval None), else JStr(text)
NoCol == [nocol |-> TRUE]

\* the file does not exist: open() raises FileNotFoundError
Missing == [missing |-> TRUE]

IsSpace(c) == c \in {" ", "\t"}

RECURSIVE LStrip(_)
LStrip(s) == IF s # <<>> /\ IsSpace(Head(s)) THEN LStrip(Tail(s)) ELSE s

RECURSIVE RStrip(_)
RStrip(s) ==
    IF s # <<>> /\ IsSpace(s[Len(s)]) THEN RStrip(SubSeq(s, 1, Len(s) - 1)) ELSE s

\* str.strip()
Strip(s) == RStrip(LStrip(s))

RECURSIVE DigitsValue(_)
DigitsValue(s) ==
    IF s = <<>> THEN 0
    ELSE 10 * DigitsValue(SubSeq(s, 1, Len(s) - 1)) + DigitVal(s[Len(s)])

\* int(text): surrounding blanks and one sign are taken, then digits only
ParseInt(s) ==
    LET t      == Strip(s)
        signed == t # <<>> /\ Head(t) \in {"+", "-"}
        digits == IF signed THEN Tail(t) ELSE t
    IN  IF digits # <<>> /\ \A i \in 1..Len(digits) : IsDigit(digits[i])
        THEN [int |-> IF signed /\ Head(t) = "-" THEN 0 - DigitsValue(digits)
                      ELSE DigitsValue(digits)]
        ELSE Raised

\* row.get(key, "").strip(): None has no strip (AttributeError)
GetStrip(v) ==
    IF v = NoCol THEN [str |-> <<>>]
    ELSE IF v = JNull THEN Raised
    ELSE [str |-> Strip(v.str)]

\* int(row[key]): KeyError without the column, TypeError for None
GetInt(v) == IF v \in {NoCol, JNull} THEN Raised ELSE ParseInt(v.str)

\* one row of load_fixed_holidays / load_lunar_holidays: the item, or Raised
LoadRow(row) ==
    LET name == GetStrip(row.name)
        m    == GetInt(row.month)
        d    == GetInt(row.day)
        desc == GetStrip(row.description)
    IN  IF Raised \in {name, m, d, desc} THEN Raised
        ELSE [name |-> name.str, month |-> m.int, day |-> d.int,
              description |-> desc.str]

\* load_fixed_holidays(csv_path): the items, or Raised; the caller has seen
\* to the file that is missing
load_fixed_holidays(rows) ==
    IF \E i \in 1..Len(rows) : LoadRow(rows[i]) = Raised THEN Raised
    ELSE [items |-> [i \in 1..Len(rows) |-> LoadRow(rows[i])]]

\* load_lunar_holidays(csv_path): the same reader, on the columns
\* lunar_month and lunar_day (here month and day)
load_lunar_holidays(rows) ==
    IF \E i \in 1..Len(rows) : LoadRow(rows[i]) = Raised THEN Raised
    ELSE [items |-> [i \in 1..Len(rows) |-> LoadRow(rows[i])]]

-----------------------------------------------------------------------------
(* generate_fixed_holidays *)

CatInternational == "international-holiday"   \* "国际节日"
CatTraditional   == "traditional-holiday"     \* "传统节日"
DescFixed == <<"fixed solar holiday">>         \* "固定公历节日"
DescLunar == <<"Chinese traditional holiday">> \* "中国传统节日"

\* x or default
OrDefault(x, default) == IF x # <<>> THEN x ELSE default

\* The loops of a generator run over the pairs (year, item) in the order of
\* the code: pair k is year (k-1) \div n + 1, item (k-1) % n + 1.
PairYear(ys, n, k) == ys[((k - 1) \div n) + 1]
PairItem(items, k) == items[((k - 1) % Len(items)) + 1]

\* from pair k on; st = [cal, yrs, raised], yrs the loop year of each event
\* added (history); date(y, month, day) raises ValueError for a day that is
\* not of the calendar
RECURSIVE FixedFrom(_, _, _, _, _)
FixedFrom(st, ys, items, k, now) ==
    IF k > Len(ys) * Len(items) THEN st
    ELSE LET y  == PairYear(ys, Len(items), k)
             it == PairItem(items, k)
         IN  IF ~ValidDate(y, it.month, it.day)
             THEN [st EXCEPT !.raised = TRUE]
             ELSE FixedFrom(
                    [st EXCEPT
                       !.cal = add_all_day_event(
                                 st.cal, Date(y, it.month, it.day), it.name,
                                 OrDefault(it.description, DescFixed),
                                 CatInternational, now),
                       !.yrs = Append(st.yrs, y)],
                    ys, items, k + 1, now)

generate_fixed_holidays(c, ys, items, now) ==
    FixedFrom([cal |-> c, yrs |-> <<>>, raised |-> FALSE], ys, items, 1, now)

-----------------------------------------------------------------------------
(* generate_lunar_holidays *)

\* the dates of sols from the j-th on; st = [cal, yrs, seen, produced],
\* produced the (date, name, description) of every date the conversion gave,
\* in order (history)
RECURSIVE LunarSols(_, _, _, _, _, _)
LunarSols(st, sols, j, y, it, now) ==
    IF j > Len(sols) THEN st
    ELSE LET dt   == sols[j]
             key  == <<dt, it.name>>
             desc == OrDefault(it.description, DescLunar)
             st1  == [st EXCEPT !.produced =
                        Append(st.produced, [date |-> dt, name |-> it.name, desc |-> desc])]
         IN  IF key \in st.seen
             THEN LunarSols(st1, sols, j + 1, y, it, now)
             ELSE LunarSols(
                    [st1 EXCEPT
                       !.seen = st.seen \cup {key},
                       !.cal  = add_all_day_event(st.cal, dt, it.name, desc,
                                                  CatTraditional, now),
                       !.yrs  = Append(st.yrs, y)],
                    sols, j + 1, y, it, now)

\* a slip: seen.add(key) left out
RECURSIVE LunarSols_NoAdd(_, _, _, _, _, _)
LunarSols_NoAdd(st, sols, j, y, it, now) ==
    IF j > Len(sols) THEN st
    ELSE LET dt   == sols[j]
             key  == <<dt, it.name>>
             desc == OrDefault(it.description, DescLunar)
             st1  == [st EXCEPT !.produced =
                        Append(st.produced, [date |-> dt, name |-> it.name, desc |-> desc])]
         IN  IF key \in st.seen
             THEN LunarSols_NoAdd(st1, sols, j + 1, y, it, now)
             ELSE LunarSols_NoAdd(
                    [st1 EXCEPT
                       !.cal  = add_all_day_event(st.cal, dt, it.name, desc,
                                                  CatTraditional, now),
                       !.yrs  = Append(st.yrs, y)],
                    sols, j + 1, y, it, now)

RECURSIVE LunarFrom_NoAdd(_, _, _, _, _, _)
LunarFrom_NoAdd(st, ys, items, k, cv, now) ==
    IF k > Len(ys) * Len(items) THEN st
    ELSE LET y    == PairYear(ys, Len(items), k)
             it   == PairItem(items, k)
             sols == lunar_to_solar_for_gregorian_year(cv, y, it.month, it.day)
         IN  LunarFrom_NoAdd(LunarSols_NoAdd(st, sols, 1, y, it, now),
                             ys, items, k + 1, cv, now)

generate_lunar_holidays_NoAdd(c, ys, items, cv, now) ==
    LunarFrom_NoAdd([cal |-> c, yrs |-> <<>>, seen |-> {}, produced |-> <<>>],
                    ys, items, 1, cv, now)

RECURSIVE LunarFrom(_, _, _, _, _, _)
LunarFrom(st, ys, items, k, cv, now) ==
    IF k > Len(ys) * Len(items) THEN st
    ELSE LET y    == PairYear(ys, Len(items), k)
             it   == PairItem(items, k)
             sols == lunar_to_solar_for_gregorian_year(cv, y, it.month, it.day)
         IN  LunarFrom(LunarSols(st, sols, 1, y, it, now), ys, items, k + 1, cv, now)

generate_lunar_holidays(c, ys, items, cv, now) ==
    LunarFrom([cal |-> c, yrs |-> <<>>, seen |-> {}, produced |-> <<>>],
              ys, items, 1, cv, now)

-----------------------------------------------------------------------------
(* generate_floating_holidays *)

NameMothersDay   == <<"M", "o", "t", "h", "e", "r">>   \* "母亲节"
NameFathersDay   == <<"F", "a", "t", "h", "e", "r">>   \* "父亲节"
NameThanksgiving == <<"T", "h", "a", "n", "k", "s">>   \* "感恩节"
DescMothersDay   == <<"floating: second Sunday of May">>
DescFathersDay   == <<"floating: third Sunday of June">>
DescThanksgiving == <<"floating: fourth Thursday of November (US)">>

RECURSIVE FloatingFrom(_, _, _, _)
FloatingFrom(st, ys, j, now) ==
    IF j > Len(ys) THEN st
    ELSE LET y            == ys[j]
             mothers_day  == get_nth_weekday(y, 5, 6, 2)
             fathers_day  == get_nth_weekday(y, 6, 6, 3)
             thanksgiving == get_nth_weekday(y, 11, 3, 4)
             c1 == add_all_day_event(st.cal, mothers_day, NameMothersDay,
                                     DescMothersDay, CatInternational, now)
             c2 == add_all_day_event(c1, fathers_day, NameFathersDay,
                                     DescFathersDay, CatInternational, now)
             c3 == add_all_day_event(c2, thanksgiving, NameThanksgiving,
                                     DescThanksgiving, CatInternational, now)
         IN  FloatingFrom([cal |-> c3, yrs |-> st.yrs \o <<y, y, y>>], ys, j + 1, now)

generate_floating_holidays(c, ys, now) ==
    FloatingFrom([cal |-> c, yrs |-> <<>>], ys, 1, now)

-----------------------------------------------------------------------------
(* Values that stand for "nothing" *)

None == [none |-> TRUE]

IdleBuild ==
    /\ clock = 0
    /\ years = <<>>
    /\ cal = <<>>
    /\ origin = <<>>
    /\ feed = <<>>
    /\ fixedFile = None
    /\ lunarFile = None
    /\ conv = <<>>
    /\ file = None
    /\ run = 0
    /\ prev = None
    /\ yi = 0
    /\ fileBefore = None

-----------------------------------------------------------------------------
(* Specification of get_nth_weekday: every call with a month, a weekday and *)
(* n in 1..4, in a range of years with leap, common and century years.      *)

NthYears == (FirstYear .. FirstYear + YearSpan) \cup {1900, 2000, 2100}

InitNth ==
    /\ pc = "nth_call"
    /\ args \in [year : NthYears, month : 1..12, weekday : 0..6, n : 1..4]
    /\ result = None
    /\ IdleBuild

CallNth ==
    /\ pc = "nth_call"
    /\ result' = get_nth_weekday(args.year, args.month, args.weekday, args.n)
    /\ pc' = "nth_return"
    /\ UNCHANGED <<args, buildVars>>

NextNth == CallNth

SpecNth == InitNth /\ [][NextNth]_vars

\* C1: get_nth_weekday(year, month, weekday, n), n in 1..4, returns a date of
\* that month and year, on the requested weekday, with exactly n-1 earlier
\* dates of the month on the same weekday.
C1_NthWeekday ==
    pc = "nth_return" =>
        /\ result.year = args.year
        /\ result.month = args.month
        /\ result.day \in 1..DaysInMonth(args.year, args.month)
        /\ Weekday(result) = args.weekday
        /\ Cardinality({d \in 1..(result.day - 1) :
                          Weekday(Date(args.year, args.month, d)) = args.weekday})
             = args.n - 1

\* the fourth occurrence falling on the 28th of a February of 28 days: the
\* latest day the rule reaches, on the last day of the shortest month
C1_Witness ==
    /\ pc = "nth_return"
    /\ args.n = 4
    /\ result.day = 28
    /\ args.month = 2
    /\ ~IsLeap(args.year)

-----------------------------------------------------------------------------
(* Specification of lunar_to_solar_for_gregorian_year: every target year of *)
(* the range, a lunar (month, day), and every pair of answers of the        *)
(* conversion for the lunar years Y and Y-1.                                *)

\* what a conversion may answer: a failure, or a date of the year before the
\* target, of the target year, or of the year after
ConvAnswers(y) ==
    {ConvFail} \cup {Date(yy, md[1], md[2]) :
                       yy \in (y - 1)..(y + 1), md \in {<<1, 22>>, <<2, 10>>, <<12, 31>>}}

LunarDays == {<<1, 1>>, <<8, 15>>, <<12, 30>>}

InitL2S ==
    /\ pc = "l2s_call"
    /\ \E y \in FirstYear .. FirstYear + YearSpan, md \in LunarDays :
         /\ args = [gregorian_year |-> y, lunar_month |-> md[1], lunar_day |-> md[2]]
         /\ \E a1 \in ConvAnswers(y), a0 \in ConvAnswers(y) :
              conv = [k \in {<<y, md[1], md[2]>>, <<y - 1, md[1], md[2]>>} |->
                        IF k[1] = y THEN a1 ELSE a0]
    /\ result = None
    /\ clock = 0 /\ years = <<>> /\ cal = <<>> /\ origin = <<>> /\ feed = <<>>
    /\ fixedFile = None /\ lunarFile = None /\ file = None /\ run = 0 /\ prev = None
    /\ yi = 0 /\ fileBefore = None

CallL2S ==
    /\ pc = "l2s_call"
    /\ result' = lunar_to_solar_for_gregorian_year(
                     conv, args.gregorian_year, args.lunar_month, args.lunar_day)
    /\ pc' = "l2s_return"
    /\ UNCHANGED <<args, buildVars>>

NextL2S == CallL2S

SpecL2S == InitL2S /\ [][NextL2S]_vars

\* C2: whatever the conversion answers or fails with for the lunar years Y and
\* Y-1, the function returns (it raises nothing) a list of 0 to 2 dates, each
\* of solar year Y, and a failed conversion contributes no date: the list is
\* exactly the successful answers of year Y, the answer for lunar year Y first.
C2_LunarToSolar ==
    pc = "l2s_return" =>
        LET y  == args.gregorian_year
            a1 == conv[<<y, args.lunar_month, args.lunar_day>>]
            a0 == conv[<<y - 1, args.lunar_month, args.lunar_day>>]
            ok(a) == a # ConvFail /\ a.year = y
        IN  /\ result \in Seq(ConvAnswers(y) \ {ConvFail})
            /\ Len(result) \in 0..2
            /\ \A i \in 1..Len(result) : result[i].year = y
            /\ Len(result) = (IF ok(a1) THEN 1 ELSE 0) + (IF ok(a0) THEN 1 ELSE 0)
            /\ \A i \in 1..Len(result) : result[i] \in {a1, a0}
            /\ (a1 = ConvFail /\ a0 = ConvFail) => result = <<>>
            /\ (ok(a1) /\ ok(a0)) => result = <<a1, a0>>

\* one conversion fails, the other answers a date of the year before the
\* target: nothing is returned
C2_Witness ==
    /\ pc = "l2s_return"
    /\ conv[<<args.gregorian_year, args.lunar_month, args.lunar_day>>] = ConvFail
    /\ conv[<<args.gregorian_year - 1, args.lunar_month, args.lunar_day>>] # ConvFail
    /\ conv[<<args.gregorian_year - 1, args.lunar_month, args.lunar_day>>].year
          # args.gregorian_year
    /\ result = <<>>

-----------------------------------------------------------------------------
(* Specification of add_offdays_and_workdays: every "days" list of up to    *)
(* MaxDays records whose name is missing, empty or a name, whose date is    *)
(* missing, empty, well formed (padded or not) or malformed, and whose      *)
(* isOffDay is true, false or missing.                                      *)

SeqsUpTo(S, n) == UNION {[1..k -> S] : k \in 0..n}

NameND == <<"N", "D">>                                       \* a holiday's name
Str_2024_10_01 == <<"2", "0", "2", "4", "-", "1", "0", "-", "0", "1">>
Str_2024_1_5   == <<"2", "0", "2", "4", "-", "1", "-", "5">>
Str_2024_02_30 == <<"2", "0", "2", "4", "-", "0", "2", "-", "3", "0">>

StatRecords ==
    [name     : {JNull, JStr(<<>>), JStr(NameND)},
     date     : {JNull, JStr(<<>>), JStr(Str_2024_10_01), JStr(Str_2024_1_5),
                 JStr(Str_2024_02_30)},
     isOffDay : {JNull, JBool(TRUE), JBool(FALSE)}]

InitStat ==
    /\ pc = "stat_call"
    /\ args \in [days : SeqsUpTo(StatRecords, MaxDays)]
    /\ result = None
    /\ IdleBuild

CallStat ==
    /\ pc = "stat_call"
    /\ LET r == add_offdays_and_workdays(<<>>, args.days, clock)
       IN  /\ cal' = r.cal
           /\ result' = [emitted |-> r.emitted, raised |-> r.raised]
    /\ pc' = "stat_return"
    /\ UNCHANGED <<args, clock, years, origin, feed, fixedFile, lunarFile, conv,
                   file, run, prev, yi, fileBefore>>

NextStat == CallStat

SpecStat == InitStat /\ [][NextStat]_vars

\* the date string of record i is there and does not parse
BadDate(d) == Truthy(d.date) /\ Strptime(d.date.str) = Raised

\* the number of events record i added
EventsOf(i) == Cardinality({p \in 1..Len(cal) : result.emitted[p] = i})

\* the event at p is the one the spec gives record d
IsEventOf(p, d) ==
    /\ cal[p].dtstart = Strptime(d.date.str)
    /\ IF d.isOffDay = JBool(TRUE)
       THEN cal[p].summary = d.name.str /\ cal[p].categories = CatStatutory
       ELSE cal[p].summary = PrefixWorkday \o d.name.str
            /\ cal[p].categories = CatWorkday

\* C3 as stated: every record with a non-empty name yields exactly one event,
\* on the record's date, a statutory holiday titled with the name when isOffDay
\* is true and a compensatory workday titled prefix + name when it is false;
\* every record with an empty or missing name yields none.
C3_AsStated ==
    pc = "stat_return" =>
        \A i \in 1..Len(args.days) :
            LET d == args.days[i]
            IN  /\ (Truthy(d.name) /\ d.isOffDay # JNull) =>
                     /\ EventsOf(i) = 1
                     /\ \A p \in 1..Len(cal) : result.emitted[p] = i => IsEventOf(p, d)
                /\ ~Truthy(d.name) => EventsOf(i) = 0

\* C3, amended: the records that yield an event are those with a non-empty
\* name and a non-empty date that come before the first record whose date
\* string does not parse (where the pass stops with an exception); each of
\* them yields exactly one event, on its date, of the kind and title above
\* (a missing isOffDay counts as false); every other record yields none, and
\* the events are in the order of their records.
C3_Statutory ==
    pc = "stat_return" =>
        LET days == args.days
            stop == IF \E i \in 1..Len(days) : BadDate(days[i])
                    THEN CHOOSE i \in 1..Len(days) :
                           BadDate(days[i]) /\ \A j \in 1..(i - 1) : ~BadDate(days[j])
                    ELSE Len(days) + 1
            Emits(i) == i < stop /\ Truthy(days[i].name) /\ Truthy(days[i].date)
        IN  /\ Len(result.emitted) = Len(cal)
            /\ result.raised <=> stop <= Len(days)
            /\ \A i \in 1..Len(days) : EventsOf(i) = (IF Emits(i) THEN 1 ELSE 0)
            /\ \A p \in 1..Len(cal) : IsEventOf(p, days[result.emitted[p]])
            /\ \A p, q \in 1..Len(cal) : p < q => result.emitted[p] < result.emitted[q]

\* a named record without a date is skipped, and the named record after it,
\* with an unpadded date and isOffDay false, yields a compensatory workday
C3_Witness ==
    /\ pc = "stat_return"
    /\ Len(args.days) = 2
    /\ args.days[1].name = JStr(NameND) /\ args.days[1].date = JNull
    /\ args.days[2].isOffDay = JBool(FALSE)
    /\ Len(cal) = 1
    /\ cal[1].summary = PrefixWorkday \o NameND
    /\ cal[1].dtstart = Date(2024, 1, 5)
    /\ cal[1].dtend = Date(2024, 1, 6)

-----------------------------------------------------------------------------
(* Specification of generate_lunar_holidays: the target years Y and Y+1,    *)
(* every rule table of up to MaxRules rules (two names, two lunar days,     *)
(* with or without a description), and every answer of the conversion.      *)

LunarYear == FirstYear + 1

NameA == <<"A">>
NameB == <<"B">>

LunarItems ==
    [name : {NameA, NameB}, month : {1, 12}, day : {1},
     description : {<<>>, <<"d">>}]

\* the answers of the conversion for a lunar year: a failure, the 29th of
\* January of the same solar year or of the next; for the twelfth month, a
\* failure or the 29th of January of the next solar year
LunarAnswers(k) ==
    IF k[2] = 1
    THEN {ConvFail, Date(k[1], 1, 29), Date(k[1] + 1, 1, 29)}
    ELSE {ConvFail, Date(k[1] + 1, 1, 29)}

LunarKeys == {<<ly, m, 1>> : ly \in (LunarYear - 1)..(LunarYear + 1), m \in {1, 12}}

LunarConvs == {cv \in [LunarKeys -> UNION {LunarAnswers(k) : k \in LunarKeys}] :
                 \A k \in LunarKeys : cv[k] \in LunarAnswers(k)}

InitLunar ==
    /\ pc = "lunar_call"
    /\ args \in [items : SeqsUpTo(LunarItems, MaxRules)]
    /\ conv \in LunarConvs
    /\ years = <<LunarYear, LunarYear + 1>>
    /\ result = None
    /\ clock = 0 /\ cal = <<>> /\ origin = <<>> /\ feed = <<>>
    /\ fixedFile = None /\ lunarFile = None /\ file = None /\ run = 0 /\ prev = None
    /\ yi = 0 /\ fileBefore = None

CallLunar ==
    /\ pc = "lunar_call"
    /\ LET r == generate_lunar_holidays(<<>>, years, args.items, conv, clock)
       IN  /\ cal' = r.cal
           /\ result' = [produced |-> r.produced]
    /\ pc' = "lunar_return"
    /\ UNCHANGED <<args, clock, years, origin, feed, fixedFile, lunarFile, conv,
                   file, run, prev, yi, fileBefore>>

NextLunar == CallLunar

SpecLunar == InitLunar /\ [][NextLunar]_vars

\* the events of the calendar with this date and title
EventsAt(dt, name) ==
    {p \in 1..Len(cal) : cal[p].dtstart = dt /\ cal[p].summary = name}

\* the first production of this date and title
FirstProduced(dt, name) ==
    CHOOSE k \in 1..Len(result.produced) :
        /\ result.produced[k].date = dt /\ result.produced[k].name = name
        /\ \A j \in 1..(k - 1) :
             ~(result.produced[j].date = dt /\ result.produced[j].name = name)

\* C8: within one run of the lunar pass, over all target years and rules,
\* each (date, title) the rules and the conversion produce, once or more, has
\* exactly one traditional-holiday event, with the description of the first
\* rule that produced it; there is no other event.
C8_LunarDedup ==
    pc = "lunar_return" =>
        /\ \A k \in 1..Len(result.produced) :
             LET pr == result.produced[k]
                 ev == EventsAt(pr.date, pr.name)
             IN  /\ Cardinality(ev) = 1
                 /\ \A p \in ev :
                      /\ cal[p].categories = CatTraditional
                      /\ cal[p].description
                           = result.produced[FirstProduced(pr.date, pr.name)].desc
        /\ \A p \in 1..Len(cal) :
             \E k \in 1..Len(result.produced) :
                 result.produced[k].date = cal[p].dtstart
                 /\ result.produced[k].name = cal[p].summary

\* the same date and title produced twice, by a rule without a description
\* and then by a rule with one: one event, with the default description
C8_Witness ==
    /\ pc = "lunar_return"
    /\ Len(result.produced) = 2
    /\ result.produced[1].date = result.produced[2].date
    /\ result.produced[1].name = result.produced[2].name
    /\ result.produced[1].desc = DescLunar
    /\ result.produced[2].desc = <<"d">>
    /\ Len(cal) = 1
    /\ cal[1].description = DescLunar

-----------------------------------------------------------------------------
(* main: build_calendar, then save_calendar; and a second run of main       *)

\* an input the run has not read yet
Unknown == [unknown |-> TRUE]

\* fetch_holiday_cn raised (the request, the HTTP status or the JSON)
FetchFail == [raised |-> "fetch"]

\* holidays.ics does not exist
Absent == [absent |-> TRUE]

\* datetime.now(TZ_SH).year: the ticks of the model lie within one year
CurrentYearAt(t) == FirstYear + 1

\* _new_calendar: the properties of the VCALENDAR
NewCalendar ==
    [prodid       |-> "-//China Holiday Calendar//github.com//china-calendar//",
     version      |-> "2.0",
     x_wr_calname |-> "holidays of China and common holidays",
     x_wr_timezone |-> "Asia/Shanghai"]

\* cal.to_ical(): the calendar's properties, then its components in order
to_ical(c) ==
    <<[vcalendar |-> NewCalendar]>> \o [i \in 1..Len(c) |-> [vevent |-> c[i]]]
        \o <<[end |-> "VCALENDAR"]>>

\* what the feed of year y may hold: a failed fetch; one holiday; a holiday
\* and then a record whose date is not of the calendar; a compensatory workday
\* on the last day of the year before, and then the holiday
FeedGood(y) ==
    [name |-> JStr(NameND), date |-> JStr(IsoFormat(Date(y, 10, 1))),
     isOffDay |-> JBool(TRUE)]
FeedBad(y) ==
    [name |-> JStr(NameND), date |-> JStr(Str_2024_02_30), isOffDay |-> JBool(TRUE)]
FeedEve(y) ==
    [name |-> JStr(NameND), date |-> JStr(IsoFormat(Date(y - 1, 12, 31))),
     isOffDay |-> JBool(FALSE)]

FeedChoices(y) ==
    {FetchFail,
     [days |-> <<FeedGood(y)>>],
     [days |-> <<FeedGood(y), FeedBad(y)>>],
     [days |-> <<FeedEve(y), FeedGood(y)>>]}

\* what data/fixed_holidays.csv may hold: nothing (the file is missing); the
\* holiday of the feed, on the 1st of October; the same twice, the second
\* with a description; the holiday and the 30th of February; a month that is
\* no number
RowND == [name |-> JStr(<<" ">> \o NameND), month |-> JStr(<<"1", "0">>),
          day |-> JStr(<<"1">>), description |-> NoCol]
RowNDd == [name |-> JStr(NameND), month |-> JStr(<<"1", "0">>),
           day |-> JStr(<<"0", "1">>), description |-> JStr(<<"d">>)]
RowFeb30 == [name |-> JStr(NameA), month |-> JStr(<<"2">>),
             day |-> JStr(<<"3", "0">>), description |-> NoCol]
RowNoInt == [name |-> JStr(NameA), month |-> JStr(<<"x">>),
             day |-> JStr(<<"1">>), description |-> NoCol]

FixedChoices ==
    {Missing, [rows |-> <<RowND>>], [rows |-> <<RowND, RowNDd>>],
     [rows |-> <<RowND, RowFeb30>>], [rows |-> <<RowNoInt>>]}

\* what data/lunar_holidays.csv may hold: nothing (missing); one rule; the
\* rule twice, the second with a description; a row cut short
LRowA == [name |-> JStr(NameA), month |-> JStr(<<"1">>), day |-> JStr(<<"1">>),
          description |-> JStr(<<" ">>)]
LRowAd == [name |-> JStr(NameA), month |-> JStr(<<"1">>), day |-> JStr(<<"1">>),
           description |-> JStr(<<"d">>)]
LRowShort == [name |-> JStr(NameA), month |-> JStr(<<"1">>), day |-> JStr(<<"1">>),
              description |-> JNull]

LunarChoices ==
    {Missing, [rows |-> <<LRowA>>], [rows |-> <<LRowA, LRowAd>>],
     [rows |-> <<LRowShort>>]}

\* the answers of the conversion the build may meet: those of the first lunar
\* month, where the lunar year after the current one answers a date of its
\* own solar year
BuildConvs ==
    {cv \in LunarConvs :
        /\ \A k \in LunarKeys : k[2] = 12 => cv[k] = ConvFail
        /\ cv[<<LunarYear + 1, 1, 1>>] = Date(LunarYear + 1, 1, 29)
        /\ cv[<<LunarYear - 1, 1, 1>>] # Date(LunarYear - 1, 1, 29)}

FeedYears == FirstYear .. FirstYear + 3

InitMain ==
    /\ pc = "main"
    /\ args = None
    /\ result = None
    /\ clock = 0
    /\ years = <<>>
    /\ cal = <<>>
    /\ origin = <<>>
    /\ feed = [y \in FeedYears |-> Unknown]
    /\ fixedFile = Unknown
    /\ lunarFile = Unknown
    /\ conv = Unknown
    /\ file = Absent
    /\ run = 1
    /\ prev = None
    /\ yi = 0
    /\ fileBefore = Absent

\* time passes: before the build, and while a feed is fetched
Tick ==
    /\ pc \in {"main", "statutory"}
    /\ clock < MaxClock
    /\ clock' = clock + 1
    /\ UNCHANGED <<pc, args, result, years, cal, origin, feed, fixedFile, lunarFile,
                   conv, file, run, prev, yi, fileBefore>>

\* main calls build_calendar: the target years, the new calendar
BuildStart ==
    /\ pc = "main"
    /\ years' = <<CurrentYearAt(clock), CurrentYearAt(clock) + 1>>
    /\ cal' = <<>>
    /\ origin' = <<>>
    /\ yi' = 1
    /\ fileBefore' = file
    /\ result' = None
    /\ pc' = "statutory"
    /\ UNCHANGED <<args, clock, feed, fixedFile, lunarFile, conv, file, run, prev>>

Tagged(pass, yrs) == [i \in 1..Len(yrs) |-> <<pass, yrs[i]>>]

\* one turn of the loop over years: fetch_holiday_cn(y) and
\* add_offdays_and_workdays, within try / except Exception: pass
StatutoryYear ==
    /\ pc = "statutory"
    /\ LET y == years[yi]
       IN  \E f \in (IF feed[y] = Unknown THEN FeedChoices(y) ELSE {feed[y]}) :
             /\ feed' = [feed EXCEPT ![y] = f]
             /\ IF f = FetchFail
                THEN UNCHANGED <<cal, origin>>
                ELSE LET r == add_offdays_and_workdays(cal, f.days, clock)
                     IN  /\ cal' = r.cal
                         /\ origin' = origin \o Tagged("statutory",
                                                       [i \in 1..Len(r.emitted) |-> y])
    /\ IF yi < Len(years)
       THEN yi' = yi + 1 /\ pc' = "statutory"
       ELSE yi' = 0 /\ pc' = "fixed"
    /\ UNCHANGED <<args, result, clock, years, fixedFile, lunarFile, conv, file, run,
                   prev, fileBefore>>

\* a slip: the fixed pass without its except FileNotFoundError
FixedPass_NoHandler ==
    /\ pc = "fixed"
    /\ \E ff \in (IF fixedFile = Unknown THEN FixedChoices ELSE {fixedFile}) :
         /\ fixedFile' = ff
         /\ LET ld == IF ff = Missing THEN Raised ELSE load_fixed_holidays(ff.rows)
                r  == IF ld = Raised THEN [raised |-> TRUE]
                      ELSE generate_fixed_holidays(cal, years, ld.items, clock)
            IN  IF r.raised
                THEN /\ pc' = "aborted"
                     /\ result' = [stage |-> "fixed"]
                     /\ UNCHANGED <<cal, origin>>
                ELSE /\ pc' = "lunar"
                     /\ cal' = r.cal
                     /\ origin' = origin \o Tagged("fixed", r.yrs)
                     /\ UNCHANGED result
    /\ UNCHANGED <<args, clock, years, feed, lunarFile, conv, file, run, prev, yi,
                   fileBefore>>

\* load_fixed_holidays and generate_fixed_holidays, within
\* try / except FileNotFoundError: pass; any other exception leaves main
FixedPass ==
    /\ pc = "fixed"
    /\ \E ff \in (IF fixedFile = Unknown THEN FixedChoices ELSE {fixedFile}) :
         /\ fixedFile' = ff
         /\ IF ff = Missing
            THEN /\ pc' = "lunar"
                 /\ UNCHANGED <<cal, origin, result>>
            ELSE LET ld == load_fixed_holidays(ff.rows)
                     r  == IF ld = Raised THEN [raised |-> TRUE]
                           ELSE generate_fixed_holidays(cal, years, ld.items, clock)
                 IN  IF r.raised
                     THEN /\ pc' = "aborted"
                          /\ result' = [stage |-> "fixed"]
                          /\ UNCHANGED <<cal, origin>>
                     ELSE /\ pc' = "lunar"
                          /\ cal' = r.cal
                          /\ origin' = origin \o Tagged("fixed", r.yrs)
                          /\ UNCHANGED result
    /\ UNCHANGED <<args, clock, years, feed, lunarFile, conv, file, run, prev, yi,
                   fileBefore>>

\* load_lunar_holidays and generate_lunar_holidays, within
\* try / except FileNotFoundError: pass
LunarPass ==
    /\ pc = "lunar"
    /\ \E lf \in (IF lunarFile = Unknown THEN LunarChoices ELSE {lunarFile}) :
         /\ lunarFile' = lf
         /\ IF lf = Missing
            THEN /\ pc' = "floating"
                 /\ UNCHANGED <<cal, origin, result, conv>>
            ELSE LET ld == load_lunar_holidays(lf.rows)
                 IN  IF ld = Raised
                     THEN /\ pc' = "aborted"
                          /\ result' = [stage |-> "lunar"]
                          /\ UNCHANGED <<cal, origin, conv>>
                     ELSE \E cv \in (IF conv = Unknown THEN BuildConvs ELSE {conv}) :
                            LET r == generate_lunar_holidays(cal, years, ld.items,
                                                             cv, clock)
                            IN  /\ conv' = cv
                                /\ pc' = "floating"
                                /\ cal' = r.cal
                                /\ origin' = origin \o Tagged("lunar", r.yrs)
                                /\ UNCHANGED result
    /\ UNCHANGED <<args, clock, years, feed, fixedFile, file, run, prev, yi, fileBefore>>

\* generate_floating_holidays, and build_calendar returns
FloatingPass ==
    /\ pc = "floating"
    /\ LET r == generate_floating_holidays(cal, years, clock)
       IN  /\ cal' = r.cal
           /\ origin' = origin \o Tagged("floating", r.yrs)
    /\ pc' = "save_open"
    /\ UNCHANGED <<args, result, clock, years, feed, fixedFile, lunarFile, conv, file,
                   run, prev, yi, fileBefore>>

\* save_calendar: open(out_path, "wb") creates the file or cuts it to nothing,
\* or raises (a path that cannot be written)
SaveOpen ==
    /\ pc = "save_open"
    /\ \/ /\ file' = [content |-> <<>>]
          /\ pc' = "save_write"
          /\ UNCHANGED result
       \/ /\ pc' = "aborted"
          /\ result' = [stage |-> "open"]
          /\ UNCHANGED file
    /\ UNCHANGED <<args, clock, years, cal, origin, feed, fixedFile, lunarFile, conv,
                   run, prev, yi, fileBefore>>

\* save_calendar: f.write(cal.to_ical()) in the open file: to_ical raises, or
\* the write stops part of the way (OSError), or all is written; the with
\* statement closes the file in each case
SaveWrite ==
    /\ pc = "save_write"
    /\ \/ /\ pc' = "aborted"
          /\ result' = [stage |-> "serialize"]
          /\ UNCHANGED file
       \/ \E k \in 1..MaxCut :
            /\ file' = [content |-> SubSeq(to_ical(cal), 1, k)]
            /\ pc' = "aborted"
            /\ result' = [stage |-> "write"]
       \/ /\ file' = [content |-> to_ical(cal)]
          /\ pc' = "done"
          /\ UNCHANGED result
    /\ UNCHANGED <<args, clock, years, cal, origin, feed, fixedFile, lunarFile, conv,
                   run, prev, yi, fileBefore>>

\* main is run again after a run that ended well; a source file may have been
\* removed in between, the feed and the conversion answer as before
NextRun ==
    /\ pc = "done"
    /\ run = 1
    /\ run' = 2
    /\ prev' = [cal |-> cal, origin |-> origin, years |-> years,
                fixedFile |-> fixedFile, lunarFile |-> lunarFile]
    /\ fixedFile' \in {fixedFile, Missing}
    /\ lunarFile' \in {lunarFile, Missing}
    /\ pc' = "main"
    /\ UNCHANGED <<args, result, clock, years, cal, origin, feed, conv, file, yi,
                   fileBefore>>

NextMain ==
    \/ Tick
    \/ BuildStart
    \/ StatutoryYear
    \/ FixedPass
    \/ LunarPass
    \/ FloatingPass
    \/ SaveOpen
    \/ SaveWrite
    \/ NextRun

SpecMain == InitMain /\ [][NextMain]_vars

-----------------------------------------------------------------------------
(* Claims about main *)

\* build_calendar has returned the calendar
BuildReturned == pc \in {"save_open", "save_write", "done"}

\* the statutory turn of target year number j is over
StatutoryDone(j) ==
    \/ pc \in {"fixed", "lunar", "floating", "save_open", "save_write", "done"}
    \/ pc = "statutory" /\ yi > j

\* the feed of year y failed: the fetch, or a date string of its records
FeedFailed(y) ==
    \/ feed[y] = FetchFail
    \/ feed[y] # Unknown /\ \E i \in 1..Len(feed[y].days) : BadDate(feed[y].days[i])

EventsFrom(pass) == {p \in 1..Len(cal) : origin[p][1] = pass}

\* C4 as stated: when the feed of one target year fails (the fetch, or a parse
\* failure anywhere in its records), the build does not abort there and the
\* document holds no statutory-holiday or compensatory-workday event from
\* that year's feed.
C4_AsStated ==
    \A j \in 1..Len(years) :
        (StatutoryDone(j) /\ FeedFailed(years[j])) =>
            ~\E p \in 1..Len(cal) : origin[p] = <<"statutory", years[j]>>

\* C5 as stated: with the fixed file missing the build completes and the
\* document has no event of the international-holiday category; with the
\* lunar file missing it has none of the traditional-holiday category.
C5_AsStated ==
    BuildReturned =>
        /\ fixedFile = Missing =>
             \A p \in 1..Len(cal) : cal[p].categories # CatInternational
        /\ lunarFile = Missing =>
             \A p \in 1..Len(cal) : cal[p].categories # CatTraditional

\* the document without its creation timestamps
NoStamps(c) == [i \in 1..Len(c) |-> [c[i] EXCEPT !.dtstamp = 0]]

\* the events of one pass, in order, without their creation timestamps
RECURSIVE OfPass(_, _, _)
OfPass(c, o, pass) ==
    IF c = <<>> THEN <<>>
    ELSE (IF Head(o)[1] = pass THEN <<[Head(c) EXCEPT !.dtstamp = 0]>> ELSE <<>>)
           \o OfPass(Tail(c), Tail(o), pass)

\* C5, amended: a missing fixed file raises nothing out of the fixed pass
\* and leaves no event of that pass, so that the only international-holiday
\* events are the three floating holidays of each target year; a missing
\* lunar file raises nothing out of the lunar pass and leaves no
\* traditional-holiday event; and in a run after a file was removed, every
\* pass whose source is as before emits exactly the events it emitted when
\* the file was present.
C5_MissingFile ==
    /\ (pc = "aborted" /\ result = [stage |-> "fixed"]) => fixedFile # Missing
    /\ (pc = "aborted" /\ result = [stage |-> "lunar"]) => lunarFile # Missing
    /\ BuildReturned =>
        /\ fixedFile = Missing =>
             /\ EventsFrom("fixed") = {}
             /\ {p \in 1..Len(cal) : cal[p].categories = CatInternational}
                  = EventsFrom("floating")
             /\ Cardinality(EventsFrom("floating")) = 3 * Len(years)
        /\ lunarFile = Missing =>
             \A p \in 1..Len(cal) : cal[p].categories # CatTraditional
        /\ (run = 2 /\ (fixedFile # prev.fixedFile \/ lunarFile # prev.lunarFile)) =>
             /\ OfPass(cal, origin, "statutory") = OfPass(prev.cal, prev.origin, "statutory")
             /\ OfPass(cal, origin, "floating") = OfPass(prev.cal, prev.origin, "floating")
             /\ fixedFile = prev.fixedFile =>
                  OfPass(cal, origin, "fixed") = OfPass(prev.cal, prev.origin, "fixed")
             /\ lunarFile = prev.lunarFile =>
                  OfPass(cal, origin, "lunar") = OfPass(prev.cal, prev.origin, "lunar")

\* the second run finds the fixed file removed: its document has the
\* statutory, lunar and floating events of the first and no fixed event
C5_Witness ==
    /\ run = 2
    /\ pc = "done"
    /\ fixedFile = Missing
    /\ prev.fixedFile # Missing
    /\ lunarFile = prev.lunarFile
    /\ OfPass(prev.cal, prev.origin, "fixed") # <<>>
    /\ OfPass(cal, origin, "lunar") # <<>>
    /\ OfPass(cal, origin, "statutory") # <<>>
    /\ EventsFrom("fixed") = {}

\* C6 as stated: on any fatal condition the run ends with the output file
\* never created or holding exactly the content it had before the run.
C6_AsStated == pc = "aborted" => file = fileBefore

\* C7 as stated: every event of the document has a date in the current year
\* or the next, whatever the feed and the rule tables hold.
C7_AsStated ==
    \A p \in 1..Len(cal) : \E j \in 1..Len(years) : cal[p].dtstart.year = years[j]

\* C7, amended: the target years are the current year and the next; every
\* event of the fixed, lunar and floating passes has a date in the target
\* year of the loop that emitted it; a statutory or compensatory event comes
\* from the feed fetched for a target year and has the date of its record,
\* whatever year that date is of.
C7_TargetYears ==
    (pc # "main" \/ run = 2) =>
        /\ years = <<CurrentYearAt(0), CurrentYearAt(0) + 1>>
        /\ \A p \in 1..Len(cal) :
             /\ \E j \in 1..Len(years) : origin[p][2] = years[j]
             /\ origin[p][1] # "statutory" => cal[p].dtstart.year = origin[p][2]
             /\ origin[p][1] = "statutory" =>
                  \E i \in 1..Len(feed[origin[p][2]].days) :
                      LET d == feed[origin[p][2]].days[i]
                      IN  Truthy(d.date) /\ cal[p].dtstart = Strptime(d.date.str)

\* the build has returned a document with a compensatory workday dated in
\* the year before the current one, and with fixed and lunar events
C7_Witness ==
    /\ BuildReturned
    /\ \E p \in EventsFrom("statutory") : cal[p].dtstart.year = years[1] - 1
    /\ \E p \in EventsFrom("lunar") : cal[p].dtstart.year = years[2]
    /\ EventsFrom("fixed") # {}

\* C9 as stated: no two entries of one document have the same identifier.
C9_AsStated ==
    \A p, q \in 1..Len(cal) : p # q => cal[p].uid # cal[q].uid

\* C9, amended: the identifier of an entry is composed from its date and
\* title and is a function of them only: two entries of a document have the
\* same identifier exactly when they have the same date and the same title
\* (which entries of different passes, or of the statutory or the fixed pass
\* alone, may have); the entries of the lunar pass have distinct identifiers.
C9_Uid ==
    /\ \A p, q \in 1..Len(cal) :
         (cal[p].uid = cal[q].uid)
            <=> (cal[p].dtstart = cal[q].dtstart /\ cal[p].summary = cal[q].summary)
    /\ \A p \in 1..Len(cal) :
         cal[p].uid = IsoFormat(cal[p].dtstart) \o <<"-">> \o cal[p].summary \o UidSuffix
    /\ \A p, q \in EventsFrom("lunar") : p # q => cal[p].uid # cal[q].uid

\* the statutory pass and the fixed pass each emit the holiday of the 1st of
\* October: two entries of different categories with one identifier
C9_Witness ==
    /\ BuildReturned
    /\ \E p \in EventsFrom("statutory"), q \in EventsFrom("fixed") :
         /\ cal[p].uid = cal[q].uid
         /\ cal[p].categories # cal[q].categories
    /\ \E p, q \in EventsFrom("fixed") :
         cal[p].summary = cal[q].summary /\ cal[p].uid # cal[q].uid

PassRank(pass) ==
    CASE pass = "statutory" -> 1
      [] pass = "fixed"     -> 2
      [] pass = "lunar"     -> 3
      [] pass = "floating"  -> 4

\* C10: a second run of the build with the inputs of the first (the current
\* year, the feed, both rule tables, the conversion) returns a document with
\* the same events in the same order, equal in every field but the creation
\* timestamp; the order is that of the passes (statutory, fixed, lunar,
\* floating), each in the ascending order of the target years.
C10_Deterministic ==
    /\ \A p, q \in 1..Len(cal) :
         p < q => \/ PassRank(origin[p][1]) < PassRank(origin[q][1])
                  \/ origin[p][1] = origin[q][1] /\ origin[p][2] <= origin[q][2]
    /\ Len(origin) = Len(cal)
    /\ (run = 2 /\ BuildReturned /\ years = prev.years
          /\ fixedFile = prev.fixedFile /\ lunarFile = prev.lunarFile) =>
         /\ NoStamps(cal) = NoStamps(prev.cal)
         /\ origin = prev.origin

\* the second run, later on the clock, has built the document of the first,
\* with events of all four passes and other creation timestamps
C10_Witness ==
    /\ run = 2
    /\ pc = "done"
    /\ fixedFile = prev.fixedFile /\ lunarFile = prev.lunarFile
    /\ \A pass \in {"statutory", "fixed", "lunar", "floating"} : EventsFrom(pass) # {}
    /\ cal # prev.cal
    /\ NoStamps(cal) = NoStamps(prev.cal)

====
